---- MODULE Spec2Model ----
(***************************************************************************)
(* Model of the PDF viewer page app/pages/pdf-viewer/[pdfId].vue.          *)
(*                                                                         *)
(* The component is single threaded.  Every `await` of fetchPdfData and    *)
(* loadAndRenderPdf is a point where the handler is suspended and another  *)
(* handler (the route watcher, a click, the continuation of another load   *)
(* cycle) may run; the code between two awaits is one atomic action.       *)
(* Vue re-renders the template before the next continuation runs, so the   *)
(* DOM (the canvas inside `v-if="!isLoading && !error"`) is brought up to  *)
(* date at the end of every action.                                        *)
(***************************************************************************)
EXTENDS Integers, Sequences, FiniteSets, TLC

\* ------------------------------------------------------------------ bounds
\* Number of load cycles (calls of fetchPdfData) a behaviour may start.
MaxCycles == 3

\* --------------------------------------------------------------- constants
\* page.getViewport({ scale: 1.5 }): the scale 1.5 is the rational 3/2.
ScaleNum == 3
ScaleDen == 2
\* Size of the viewport the engine reports (the tests' engine: 600 x 800).
ViewportWidth == 600
ViewportHeight == 800

Placeholder == "REPLACE_WITH_YOUR_ACTUAL_API_BASE_URL"
\* The base is unset (undefined or empty), the placeholder, or a real one.
ApiBases == {"<undefined>", "", Placeholder, "https://api.example.com"}

NoId == ""
Ids == {"doc1", "doc2"}

\* A field a JavaScript object does not have (undefined).
Absent == "<undefined>"

\* ------------------------------------------------------------ box records
RawBox(eid, id, x, y, w, h, t) ==
    [element_id |-> eid, id |-> id, x |-> x, y |-> y, width |-> w,
     height |-> h, text |-> t]

\* A server box list: two overlapping boxes, the later one larger, and a
\* disjoint third record keyed by `id` instead of `element_id`.
SampleBoxes ==
    << RawBox("box1", Absent, 2, 2, 4, 2, "T1"),
       RawBox("box2", Absent, 4, 2, 4, 4, "T2"),
       RawBox(Absent, "b7", 10, 0, 2, 2, "T7") >>

BoxLists == {<< >>, SampleBoxes}

\* `box.element_id || box.id`: undefined and the empty string are falsy.
Falsy(s) == s = Absent \/ s = ""
OrElse(a, b) == IF Falsy(a) THEN b ELSE a

\* The map without `|| box.id`.
NormalizeBoxNoFallback(box) == box

\* boundingBoxes.map(box => ({...box, element_id: box.element_id || box.id}))
NormalizeBox(box) == [box EXCEPT !.element_id = OrElse(box.element_id, box.id)]
NormalizeBoxes(raw) == [i \in 1..Len(raw) |-> NormalizeBox(raw[i])]

\* ------------------------------------------------------- metadata replies
\* What `await useFetch(url)` resolves to: { data, error }.
NoRemoteError == [present |-> FALSE, statusMessage |-> Absent, message |-> Absent]
RemoteErrors ==
    { [present |-> TRUE, statusMessage |-> "Internal Server Error",
       message |-> "API Error 500"],
      [present |-> TRUE, statusMessage |-> Absent, message |-> "API Error 500"] }

NoData == [present |-> FALSE, cloudStoragePath |-> Absent, hasBoxes |-> FALSE,
           boundingBoxes |-> << >>]
Payload(path, boxes) ==
    [present |-> TRUE, cloudStoragePath |-> path, hasBoxes |-> TRUE,
     boundingBoxes |-> boxes]
\* A payload without a boundingBoxes field at all.
PayloadNoList(path) ==
    [present |-> TRUE, cloudStoragePath |-> path, hasBoxes |-> FALSE,
     boundingBoxes |-> << >>]

StoragePath(id) == "https://example.com/" \o id \o ".pdf"

Responses(id) ==
    { [data |-> NoData, error |-> e] : e \in RemoteErrors }
      \cup { [data |-> NoData, error |-> NoRemoteError] }
      \cup { [data |-> Payload(p, b), error |-> NoRemoteError] :
               p \in {Absent, "", StoragePath(id)}, b \in BoxLists }
      \cup { [data |-> PayloadNoList(StoragePath(id)), error |-> NoRemoteError] }

\* ----------------------------------------------------------- error values
\* error.value is either null, an Error object or a plain string.
NoError == [kind |-> "null", message |-> << >>]
ErrorObj(msg) == [kind |-> "Error", message |-> msg]
ErrorStr(msg) == [kind |-> "string", message |-> msg]

ConfigErrorMsg ==
    << "API base URL is not configured in nuxt.config.ts. Please replace the placeholder." >>
\* `${statusMessage || message || value}`
RemoteText(e) ==
    OrElse(e.statusMessage, OrElse(e.message, "[object Object]"))
\* The message without the remote text.
FetchErrorMsgBare(e) == << "Error fetching metadata: ", "" >>
FetchErrorMsg(e) == << "Error fetching metadata: ", RemoteText(e) >>
NoDataMsg == << "No data returned from metadata API." >>
NoPathMsg == << "PDF cloud storage path not provided in API response." >>
NoListMsg == << "TypeError: Cannot read properties of undefined (reading 'map')" >>
CanvasMissingMsg == << "Canvas element not found." >>
ContextMissingMsg == << "Failed to get canvas context" >>
RenderErrorMsg(what) == << "Failed to load PDF: ", what >>

\* -------------------------------------------------------------- viewports
NoView == [set |-> FALSE, num |-> 0, den |-> 1, width |-> 0, height |-> 0]
View(num, den, w, h) ==
    [set |-> TRUE, num |-> num, den |-> den, width |-> w, height |-> h]
\* page.getViewport({ scale: 1.5 })
GetViewport == View(ScaleNum, ScaleDen, ViewportWidth, ViewportHeight)



\* ------------------------------------------------------------------ state
VARIABLES
    apiBaseUrl,     \* config.public.apiBaseUrl
    mounted,        \* onMounted has run
    pdfId,          \* ref pdfId
    boundingBoxes,  \* ref boundingBoxes
    pdfFileUrl,     \* ref pdfFileUrl (Absent for null)
    isLoading,      \* ref isLoading
    error,          \* ref error
    pdfPageView,    \* ref pdfPageView (NoView for null)
    canvas,         \* the element #pdf-canvas of the rendered template
    focused,        \* id attribute of the focused input field, "" if none
    cyc,            \* the load cycles: position and locals of each call of fetchPdfData
    nCycles,        \* number of load cycles started so far
    src,            \* history: the load cycle that produced boundingBoxes / pdfPageView,
                    \* and the number of cycles started when the boxes were stored
    ev              \* history: what the last step did

vars == << apiBaseUrl, mounted, pdfId, boundingBoxes, pdfFileUrl,
           isLoading, error, pdfPageView, canvas, focused, cyc, nCycles, src, ev >>

Cycles == 1..MaxCycles

\* The whole state as one record, so that the straight-line code of a handler
\* is a composition of functions on it.
St ==
    [apiBaseUrl |-> apiBaseUrl, mounted |-> mounted,
     pdfId |-> pdfId, boundingBoxes |-> boundingBoxes, pdfFileUrl |-> pdfFileUrl,
     isLoading |-> isLoading, error |-> error, pdfPageView |-> pdfPageView,
     canvas |-> canvas, focused |-> focused, cyc |-> cyc, nCycles |-> nCycles,
     src |-> src, ev |-> ev]

Set(s) ==
    /\ apiBaseUrl' = s.apiBaseUrl
    /\ mounted' = s.mounted
    /\ pdfId' = s.pdfId
    /\ boundingBoxes' = s.boundingBoxes
    /\ pdfFileUrl' = s.pdfFileUrl
    /\ isLoading' = s.isLoading
    /\ error' = s.error
    /\ pdfPageView' = s.pdfPageView
    /\ canvas' = s.canvas
    /\ focused' = s.focused
    /\ cyc' = s.cyc
    /\ nCycles' = s.nCycles
    /\ src' = s.src
    /\ ev' = s.ev

\* What a step did: whether a load cycle ended in it (ended) and then which
\* (c), why it failed ("none" if it did not), the remote error the metadata
\* call reported, if that is why, and which engine calls it had made; whether
\* drawBoundingBoxes stroked boxes (drawn) and how many (n); whether a click was
\* handled (clicked), where (x, y), the index of the box it selected (hit, 0 if
\* none) and the input it focused; whether the reply's box list was stored
\* (stored) and the list as the server sent it (raw).
NoEvent ==
    [ended |-> FALSE, c |-> 0, fail |-> "none", remote |-> NoRemoteError,
     engine |-> {}, drawn |-> FALSE, n |-> 0,
     clicked |-> FALSE, x |-> 0, y |-> 0, hit |-> 0, focus |-> "",
     stored |-> FALSE, raw |-> << >>]
Event(s) == [s EXCEPT !.ev = NoEvent]

\* ------------------------------------------------------------ the canvas
NoCanvas ==
    [exists |-> FALSE, page |-> "blank", strokes |-> {}, listeners |-> 0,
     width |-> 0, height |-> 0]
\* A canvas element as the template creates it (HTML default size 300 x 150).
FreshCanvas ==
    [exists |-> TRUE, page |-> "blank", strokes |-> {}, listeners |-> 0,
     width |-> 300, height |-> 150]

\* context.clearRect(0, 0, canvas.width, canvas.height)
ClearRect(cv) == [cv EXCEPT !.page = "blank", !.strokes = {}]

\* document.getElementById('pdf-canvas') followed by `if (canvas) clearRect`
ClearCanvasIfAny(cv) == IF cv.exists THEN ClearRect(cv) ELSE cv

\* <template v-if="!isLoading && !error">
TemplateShown(loading, err) == ~loading /\ err = NoError

NoFocus == ""
InputId(box) == "input-" \o box.element_id
InputIds(boxes) == { InputId(boxes[i]) : i \in 1..Len(boxes) }

\* Vue's re-render after a handler: the block under the v-if is created or
\* destroyed; a canvas captured by a pending render is detached for good once
\* the block is destroyed, and a destroyed input loses the focus.
Flush(s) ==
    LET shown == TemplateShown(s.isLoading, s.error) IN
    [s EXCEPT
       !.canvas = IF shown THEN (IF s.canvas.exists THEN s.canvas ELSE FreshCanvas)
                           ELSE NoCanvas,
       !.cyc = [c \in Cycles |-> [s.cyc[c] EXCEPT !.att = s.cyc[c].att /\ shown]],
       !.focused = IF shown /\ s.focused \in InputIds(s.boundingBoxes)
                     THEN s.focused ELSE NoFocus]

\* ------------------------------------------------------------ load cycles
\* pc: "new" not started, "fetch" at `await useFetch`, "doc" at
\* `await loadingTask.promise`, "page" at `await pdf.getPage(1)`, "render" at
\* `await page.render(...).promise`, "ret" at `await loadAndRenderPdf(...)`,
\* "done" after the finally block.
\* id, url: the arguments of fetchPdfData and loadAndRenderPdf.
\* att: the canvas element captured by loadAndRenderPdf is still in the page.
\* fail: why the cycle failed, "none" while it has not.
\* engine: the calls of the rasterization engine the cycle has made.
NewCycle ==
    [pc |-> "new", id |-> NoId, url |-> Absent, att |-> FALSE, fail |-> "none",
     engine |-> {}]
\* The locals of a call that has returned are gone.
DoneCycle == [NewCycle EXCEPT !.pc = "done"]

\* Catch without `boundingBoxes.value = []`.
CatchKeepingBoxes(s, c, e) ==
    [s EXCEPT !.error = e,
              !.pdfFileUrl = Absent,
              !.canvas = ClearCanvasIfAny(s.canvas)]

\* catch (e) { ... } of fetchPdfData
Catch(s, c, e) ==
    [s EXCEPT !.error = e,
              !.boundingBoxes = << >>,
              !.pdfFileUrl = Absent,
              !.canvas = ClearCanvasIfAny(s.canvas),
              !.src.boxes = 0, !.src.epoch = 0]

\* The function without its finally block.
FinallyKeepingLoading(s, c) ==
    [s EXCEPT !.cyc[c] = DoneCycle,
              !.ev.ended = TRUE,
              !.ev.c = c,
              !.ev.fail = s.cyc[c].fail,
              !.ev.engine = s.cyc[c].engine]

\* finally { isLoading.value = false }
Finally(s, c) ==
    [s EXCEPT !.isLoading = FALSE,
              !.cyc[c] = DoneCycle,
              !.ev.ended = TRUE,
              !.ev.c = c,
              !.ev.fail = s.cyc[c].fail,
              !.ev.engine = s.cyc[c].engine]

\* A throw inside the try block with no await before the finally.
Throw(s, c, why, e) == Finally(Catch([s EXCEPT !.cyc[c].fail = why], c, e), c)

\* The check without `|| !apiBaseUrl`.
PlaceholderOnly(base) == base = Placeholder

\* apiBaseUrl === 'REPLACE_WITH_YOUR_ACTUAL_API_BASE_URL' || !apiBaseUrl
Unconfigured(base) == base = Placeholder \/ Falsy(base)

\* fetchPdfData(id) up to `await useFetch(metadataUrl)`
FetchPdfData(s, id) ==
    LET c == s.nCycles + 1
        s1 == [s EXCEPT !.nCycles = c,
                        !.isLoading = TRUE,
                        !.error = NoError,
                        !.cyc[c] = [NewCycle EXCEPT !.id = id]]
    IN  IF Unconfigured(s1.apiBaseUrl)
          THEN Throw(s1, c, "config", ErrorObj(ConfigErrorMsg))
          ELSE [s1 EXCEPT !.cyc[c].pc = "fetch"]

\* loadAndRenderPdf without `context.clearRect(...)` before the document load.
LoadAndRenderPdfNoClear(s, c, url, ctxOk) ==
    IF ~s.canvas.exists
      THEN [s EXCEPT !.error = ErrorStr(CanvasMissingMsg),
                     !.cyc[c].pc = "ret", !.cyc[c].fail = "canvas"]
    ELSE IF ~ctxOk
      THEN [s EXCEPT !.error = ErrorStr(ContextMissingMsg),
                     !.cyc[c].pc = "ret", !.cyc[c].fail = "context"]
    ELSE [s EXCEPT !.cyc[c].pc = "doc",
                   !.cyc[c].url = url,
                   !.cyc[c].att = TRUE,
                   !.cyc[c].engine = @ \cup {"getDocument"}]

\* loadAndRenderPdf(url) up to `await loadingTask.promise`
LoadAndRenderPdf(s, c, url, ctxOk) ==
    IF ~s.canvas.exists
      THEN [s EXCEPT !.error = ErrorStr(CanvasMissingMsg),
                     !.cyc[c].pc = "ret", !.cyc[c].fail = "canvas"]
    ELSE IF ~ctxOk
      THEN [s EXCEPT !.error = ErrorStr(ContextMissingMsg),
                     !.cyc[c].pc = "ret", !.cyc[c].fail = "context"]
    ELSE [s EXCEPT !.canvas = ClearRect(s.canvas),
                   !.cyc[c].pc = "doc",
                   !.cyc[c].url = url,
                   !.cyc[c].att = TRUE,
                   !.cyc[c].engine = @ \cup {"getDocument"}]

\* fetchPdfData from the resolution of useFetch to the next await
FetchSettled(s, c, r, ctxOk) ==
    IF r.error.present
      THEN Throw([s EXCEPT !.ev.remote = r.error], c, "fetch",
                 ErrorObj(FetchErrorMsg(r.error)))
    ELSE IF ~r.data.present
      THEN Throw(s, c, "nodata", ErrorObj(NoDataMsg))
    ELSE
      LET s1 == [s EXCEPT !.pdfFileUrl = r.data.cloudStoragePath] IN
      IF ~r.data.hasBoxes
        THEN Throw(s1, c, "nolist", ErrorObj(NoListMsg))
      ELSE
        LET s2 == [s1 EXCEPT !.boundingBoxes = NormalizeBoxes(r.data.boundingBoxes),
                             !.src.boxes = c, !.src.epoch = s.nCycles,
                             !.ev.stored = TRUE,
                             !.ev.raw = r.data.boundingBoxes] IN
        IF Falsy(s2.pdfFileUrl)
          THEN Throw(s2, c, "nopath", ErrorObj(NoPathMsg))
          ELSE LoadAndRenderPdf(s2, c, s2.pdfFileUrl, ctxOk)

\* catch (e) { ... } of loadAndRenderPdf
RenderCatch(s, c, why) ==
    [s EXCEPT !.error = ErrorStr(RenderErrorMsg(why)),
              !.cyc[c].pc = "ret",
              !.cyc[c].fail = why]

\* `const pdf = await loadingTask.promise; ... pdf.getPage(1)`
DocSettled(s, c, ok) ==
    IF ok THEN [s EXCEPT !.cyc[c].pc = "page", !.cyc[c].engine = @ \cup {"getPage"}]
          ELSE RenderCatch(s, c, "document load")

\* Assigning canvas.height / canvas.width resets the bitmap.
Resize(cv, view) ==
    [ClearRect(cv) EXCEPT !.width = view.width, !.height = view.height]

\* from the resolution of getPage to `await page.render(renderContext).promise`
PageSettled(s, c, ok) ==
    IF ~ok THEN RenderCatch(s, c, "page fetch")
    ELSE
      LET viewport == GetViewport IN
      [s EXCEPT !.pdfPageView = viewport,
                !.src.view = c,
                !.canvas = IF s.cyc[c].att THEN Resize(s.canvas, viewport) ELSE s.canvas,
                !.cyc[c].pc = "render",
                !.cyc[c].engine = @ \cup {"render"}]

\* The outline of one box: strokeRect(x * scale, y * scale, w * scale, h * scale),
\* kept as numerators over the scale's denominator.
ScreenRect(box, view) ==
    [x |-> box.x * view.num, y |-> box.y * view.num,
     width |-> box.width * view.num, height |-> box.height * view.num,
     den |-> view.den]
ScreenRects(boxes, view) == { ScreenRect(boxes[i], view) : i \in 1..Len(boxes) }

\* drawBoundingBoxes()
DrawBoundingBoxes(s) ==
    IF ~s.canvas.exists THEN s
    ELSE IF ~s.pdfPageView.set THEN s
    ELSE [s EXCEPT
            !.canvas.strokes = @ \cup ScreenRects(s.boundingBoxes, s.pdfPageView),
            !.ev.drawn = TRUE,
            !.ev.n = Len(s.boundingBoxes)]

\* canvas.removeEventListener('click', h); canvas.addEventListener('click', h)
Rebind(cv) == [cv EXCEPT !.listeners = 1]

\* what page.render leaves on the canvas it was given
Painted(s, c, how) ==
    IF s.cyc[c].att THEN [s EXCEPT !.canvas.page = how] ELSE s

\* from the resolution of page.render to the return of loadAndRenderPdf
RenderSettled(s, c, ok, partial) ==
    IF ~ok
      THEN RenderCatch(IF partial THEN Painted(s, c, "partial") ELSE s, c, "paint")
    ELSE
      LET s1 == DrawBoundingBoxes(Painted(s, c, "full")) IN
      [s1 EXCEPT !.canvas = IF s.cyc[c].att THEN Rebind(s1.canvas) ELSE s1.canvas,
                 !.cyc[c].pc = "ret"]

\* the rest of fetchPdfData after `await loadAndRenderPdf(...)`
Returned(s, c) == Finally(s, c)

\* ------------------------------------------------------------- hit testing
\* The comparison with `>` and `<`: the edges are outside.
ContainsStrict(box, view, px, py) ==
    /\ px * view.den > box.x * view.num
    /\ px * view.den < box.x * view.num + box.width * view.num
    /\ py * view.den > box.y * view.num
    /\ py * view.den < box.y * view.num + box.height * view.num

\* x >= canvasX && x <= canvasX + canvasWidth && y >= canvasY && y <= canvasY + canvasHeight
Contains(box, view, px, py) ==
    /\ px * view.den >= box.x * view.num
    /\ px * view.den <= box.x * view.num + box.width * view.num
    /\ py * view.den >= box.y * view.num
    /\ py * view.den <= box.y * view.num + box.height * view.num

\* for (const box of boundingBoxes.value) { if (...) { ...; return } }
RECURSIVE HitFrom(_, _, _, _, _)
HitFrom(boxes, view, px, py, i) ==
    IF i > Len(boxes) THEN 0
    ELSE IF Contains(boxes[i], view, px, py) THEN i
    ELSE HitFrom(boxes, view, px, py, i + 1)

\* The loop without its `return`: the last box containing the point wins.
HitTestLast(boxes, view, px, py) ==
    LET hits == { i \in 1..Len(boxes) : Contains(boxes[i], view, px, py) } IN
    IF ~view.set \/ hits = {} THEN 0
    ELSE CHOOSE i \in hits : \A j \in hits : j <= i

\* The handler without `if (!viewport) return`.
HitTestUnguarded(boxes, view, px, py) == HitFrom(boxes, view, px, py, 1)

\* The index of the box handleCanvasClick selects, 0 if none.
HitTest(boxes, view, px, py) ==
    IF ~view.set THEN 0 ELSE HitFrom(boxes, view, px, py, 1)

\* The handler without `if (inputElement)`: it focuses whatever the lookup
\* returned.
HandleClickUnguarded(s, fields, px, py) ==
    LET hit == HitTest(s.boundingBoxes, s.pdfPageView, px, py)
        key == IF hit = 0 THEN NoFocus ELSE InputId(s.boundingBoxes[hit])
    IN  [s EXCEPT !.focused = IF hit # 0 THEN key ELSE s.focused,
                  !.ev.clicked = TRUE,
                  !.ev.x = px, !.ev.y = py, !.ev.hit = hit,
                  !.ev.focus = key]

\* handleCanvasClick(event), event at (px, py) relative to the canvas, in a
\* document whose elements with an id of the form "input-..." are `fields`
\* (what document.getElementById finds).
HandleClickIn(s, fields, px, py) ==
    LET hit == HitTest(s.boundingBoxes, s.pdfPageView, px, py)
        key == IF hit = 0 THEN NoFocus ELSE InputId(s.boundingBoxes[hit])
        found == hit # 0 /\ key \in fields
    IN  [s EXCEPT !.focused = IF found THEN key ELSE s.focused,
                  !.ev.clicked = TRUE,
                  !.ev.x = px, !.ev.y = py, !.ev.hit = hit,
                  !.ev.focus = IF found THEN key ELSE NoFocus]

\* The handler in the rendered page: the template has one input per box.
HandleCanvasClick(s, px, py) ==
    HandleClickIn(s, InputIds(s.boundingBoxes), px, py)

\* ------------------------------------------------------ mount and watcher
\* onMounted(() => { if (pdfId.value) fetchPdfData(pdfId.value) })
OnMounted(s) ==
    LET s1 == [s EXCEPT !.mounted = TRUE] IN
    IF Falsy(s1.pdfId) THEN s1 ELSE FetchPdfData(s1, s1.pdfId)

\* The guard without `newId !== pdfId.value`.
WatchGuardAnyId(s, newId) == ~Falsy(newId)

\* newId && typeof newId === 'string' && newId !== pdfId.value
WatchGuard(s, newId) == ~Falsy(newId) /\ newId # s.pdfId

\* The watcher without `boundingBoxes.value = []`.
WatcherKeepingBoxes(s, newId) ==
    IF ~WatchGuard(s, newId) THEN s
    ELSE FetchPdfData([s  EXCEPT !.pdfId = newId,
                                 !.pdfFileUrl = Absent,
                                 !.canvas = ClearCanvasIfAny(s.canvas),
                                 !.pdfPageView = NoView,
                                 !.src.view = 0,
                                 !.error = NoError,
                                 !.isLoading = TRUE],
                      newId)

\* watch(() => route.params.pdfId, (newId) => { ... }): the callback, run with
\* the new value of the route parameter.  The parameter may have been absent
\* in between, so the new value can equal pdfId.
Watcher(s, newId) ==
    IF ~WatchGuard(s, newId) THEN s
    ELSE FetchPdfData([s  EXCEPT !.pdfId = newId,
                                 !.boundingBoxes = << >>,
                                 !.src.boxes = 0, !.src.epoch = 0,
                                 !.pdfFileUrl = Absent,
                                 !.canvas = ClearCanvasIfAny(s.canvas),
                                 !.pdfPageView = NoView,
                                 !.src.view = 0,
                                 !.error = NoError,
                                 !.isLoading = TRUE],
                      newId)

\* ---------------------------------------------------------------- actions
\* Clicks: inside box1 and box2, a corner of box2 only, inside the third box,
\* outside every box.
ClickPoints == { <<7, 5>>, <<12, 9>>, <<16, 1>>, <<0, 0>> }

Init ==
    /\ apiBaseUrl \in ApiBases
    /\ pdfId \in Ids \cup {NoId}
    /\ mounted = FALSE
    /\ boundingBoxes = << >>
    /\ pdfFileUrl = Absent
    /\ isLoading = TRUE
    /\ error = NoError
    /\ pdfPageView = NoView
    /\ canvas = NoCanvas
    /\ focused = NoFocus
    /\ cyc = [c \in Cycles |-> NewCycle]
    /\ nCycles = 0
    /\ src = [boxes |-> 0, view |-> 0, epoch |-> 0]
    /\ ev = NoEvent

Mount ==
    /\ ~mounted
    /\ Set(Flush(OnMounted(Event(St))))

RouteChange(newId) ==
    /\ mounted
    /\ WatchGuard(St, newId) => nCycles < MaxCycles
    /\ Set(Flush(Watcher(Event(St), newId)))

FetchResolve(c, r, ctxOk) ==
    /\ cyc[c].pc = "fetch"
    /\ Set(Flush(FetchSettled(Event(St), c, r, ctxOk)))

DocResolve(c, ok) ==
    /\ cyc[c].pc = "doc"
    /\ Set(Flush(DocSettled(Event(St), c, ok)))

PageResolve(c, ok) ==
    /\ cyc[c].pc = "page"
    /\ Set(Flush(PageSettled(Event(St), c, ok)))

RenderResolve(c, ok, partial) ==
    /\ cyc[c].pc = "render"
    /\ Set(Flush(RenderSettled(Event(St), c, ok, partial)))

Return(c) ==
    /\ cyc[c].pc = "ret"
    /\ Set(Flush(Returned(Event(St), c)))

Click(px, py) ==
    /\ canvas.exists
    /\ canvas.listeners > 0
    /\ Set(Flush(HandleCanvasClick(Event(St), px, py)))

Next ==
    \/ Mount
    \/ \E newId \in Ids \cup {NoId} : RouteChange(newId)
    \/ \E c \in Cycles : \E r \in Responses(cyc[c].id) : \E ctxOk \in BOOLEAN :
         FetchResolve(c, r, ctxOk)
    \/ \E c \in Cycles : \E ok \in BOOLEAN : DocResolve(c, ok)
    \/ \E c \in Cycles : \E ok \in BOOLEAN : PageResolve(c, ok)
    \/ \E c \in Cycles : \E ok \in BOOLEAN : \E partial \in BOOLEAN :
         RenderResolve(c, ok, partial)
    \/ \E c \in Cycles : Return(c)
    \/ \E p \in ClickPoints : Click(p[1], p[2])

Spec == Init /\ [][Next]_vars

\* The next step of load cycle c: the resolution or rejection of the promise
\* it awaits, or the continuation after `await loadAndRenderPdf(...)`.
CycleStep(c) ==
    \/ \E r \in Responses(cyc[c].id) : \E ctxOk \in BOOLEAN :
          FetchResolve(c, r, ctxOk)
    \/ \E ok \in BOOLEAN : DocResolve(c, ok)
    \/ \E ok \in BOOLEAN : PageResolve(c, ok)
    \/ \E ok \in BOOLEAN : \E partial \in BOOLEAN : RenderResolve(c, ok, partial)
    \/ Return(c)

\* Number of load cycles a behaviour of LiveSpec may start: the identifier
\* changes finitely often.
MaxLiveCycles == 2

LiveRouteChange(newId) ==
    /\ WatchGuard(St, newId) => nCycles < MaxLiveCycles
    /\ RouteChange(newId)

LiveNext ==
    \/ Mount
    \/ \E newId \in Ids \cup {NoId} : LiveRouteChange(newId)
    \/ \E c \in Cycles : CycleStep(c)
    \/ \E p \in ClickPoints : Click(p[1], p[2])

\* Every promise a load cycle awaits is settled in the end, and the event loop
\* runs the continuation: as long as some cycle is suspended, one of them is
\* resumed.  Route changes and clicks may stop at any time.
Fairness == WF_vars(\E c \in Cycles : CycleStep(c))

LiveSpec == Init /\ [][LiveNext]_vars /\ Fairness

TypeOK ==
    /\ nCycles \in 0..MaxCycles
    /\ isLoading \in BOOLEAN
    /\ canvas.exists = (mounted /\ TemplateShown(isLoading, error))


\* ------------------------------------------------- hit testing on its own
\* The click handler applied to box lists, transforms and points drawn from
\* bounded sets, in a page that shows the canvas with its listener bound.
MaxBoxes == 2

HitCoords == {0, 2}
HitSizes == { <<4, 2>>, <<0, 2>>, <<4, 0>> }
HitBoxAt(i, x, y, w, h) ==
    RawBox("e" \o ToString(i), Absent, x, y, w, h, "T" \o ToString(i))
HitLists ==
    UNION { [ 1..n -> HitCoords \X HitCoords \X HitSizes ] : n \in 0..MaxBoxes }
HitBoxes(f) ==
    [ i \in DOMAIN f |-> HitBoxAt(i, f[i][1], f[i][2], f[i][3][1], f[i][3][2]) ]
HitViews == { View(1, 1, 400, 533), GetViewport }
HitPoints == {0, 1, 3, 4, 6, 9} \X {0, 3, 5, 6}

HitInit ==
    /\ apiBaseUrl = "https://api.example.com"
    /\ pdfId = "doc1"
    /\ mounted = TRUE
    /\ \E f \in HitLists : boundingBoxes = HitBoxes(f)
    /\ pdfFileUrl = StoragePath("doc1")
    /\ isLoading = FALSE
    /\ error = NoError
    /\ pdfPageView \in HitViews
    /\ canvas = [Rebind(Resize(FreshCanvas, pdfPageView)) EXCEPT
                   !.page = "full",
                   !.strokes = ScreenRects(boundingBoxes, pdfPageView)]
    /\ focused = NoFocus
    /\ cyc = [c \in Cycles |-> IF c = 1 THEN DoneCycle ELSE NewCycle]
    /\ nCycles = 1
    /\ src = [boxes |-> 1, view |-> 1, epoch |-> 1]
    /\ ev = NoEvent

HitNext == \E p \in HitPoints : Click(p[1], p[2])

HitSpec == HitInit /\ [][HitNext]_vars

\* ------------------------------------------------ normalization on its own
\* The reply to the metadata request of the mount cycle, with box lists whose
\* records have `element_id` and `id` absent, empty or set.
MaxRaw == 2

NormKeys == {Absent, "", "e1"} \X {Absent, "", "b7"}
NormLists == UNION { [ 1..n -> NormKeys ] : n \in 0..MaxRaw }
\* Coordinates and text differ from one index to the next.
NormBoxes(f) ==
    [ i \in DOMAIN f |->
        RawBox(f[i][1], f[i][2], i, 2 * i, 3 + i, 4 + i, "T" \o ToString(i)) ]

NormInit ==
    /\ apiBaseUrl = "https://api.example.com"
    /\ pdfId \in Ids
    /\ mounted = TRUE
    /\ boundingBoxes = << >>
    /\ pdfFileUrl = Absent
    /\ isLoading = TRUE
    /\ error = NoError
    /\ pdfPageView = NoView
    /\ canvas = NoCanvas
    /\ focused = NoFocus
    /\ cyc = [c \in Cycles |->
                IF c = 1 THEN [NewCycle EXCEPT !.pc = "fetch", !.id = pdfId]
                         ELSE NewCycle]
    /\ nCycles = 1
    /\ src = [boxes |-> 0, view |-> 0, epoch |-> 0]
    /\ ev = NoEvent

NormNext ==
    \/ \E f \in NormLists : \E ctxOk \in BOOLEAN :
          FetchResolve(1, [data |-> Payload(StoragePath(pdfId), NormBoxes(f)),
                           error |-> NoRemoteError], ctxOk)
    \/ Return(1)

NormSpec == NormInit /\ [][NormNext]_vars

\* ------------------------------------------------------------------ claims
\* A point is inside the rectangle drawBoundingBoxes strokes for the box.
InsideStroke(box, view, px, py) ==
    LET r == ScreenRect(box, view) IN
    /\ r.x <= px * r.den /\ px * r.den <= r.x + r.width
    /\ r.y <= py * r.den /\ py * r.den <= r.y + r.height

SharedRefs == << boundingBoxes, pdfPageView, pdfFileUrl, error, isLoading >>

\* Load cycle c, already superseded by a newer cycle, takes a step.
StaleStep(c) == c < nCycles /\ cyc'[c].pc # cyc[c].pc

\* C1: once a newer identifier has arrived, no step of the older identifier's
\* load cycle writes boundingBoxes, pdfPageView, pdfFileUrl, error or isLoading.
C1_StaleCycleCommitsNothing ==
    [][\A c \in Cycles : StaleStep(c) => UNCHANGED SharedRefs]_vars

\* C2: whenever boxes are stroked or hit-tested, the transform and the box
\* list were produced by the same load cycle.
C2_BoxesAndTransformOfOneCycle ==
    (\/ ev.drawn /\ ev.n > 0
     \/ ev.clicked /\ pdfPageView.set /\ Len(boundingBoxes) > 0)
      => src.boxes = src.view

\* Nothing outside the component went wrong in the cycle: the base is
\* configured, the reply is complete and the engine and the 2D context worked.
NoExternalFailure(why) == why \in {"none", "canvas"}

ReadyState ==
    /\ ~isLoading
    /\ error = NoError
    /\ \E raw \in BoxLists : boundingBoxes = NormalizeBoxes(raw)
    /\ pdfPageView.set /\ pdfPageView.num = ScaleNum /\ pdfPageView.den = ScaleDen
    /\ canvas.exists
    /\ canvas.page = "full"
    /\ canvas.strokes = ScreenRects(boundingBoxes, pdfPageView)

\* C3: the load cycle started at mount, with a complete reply and a working
\* engine and no identifier change, ends in Ready.
C3_MountCycleEndsReady ==
    (nCycles = 1 /\ ev.ended /\ NoExternalFailure(ev.fail)) => ReadyState

\* C4: the step that changes the identifier leaves boundingBoxes empty, the
\* transform absent, error cleared, the canvas without content and isLoading
\* true, with the new cycle's metadata request issued in that same step; and
\* while the newest cycle's request is pending, boundingBoxes holds no boxes
\* stored before that cycle started.
C4_ChangeClearsBeforeFetch ==
    /\ [][(pdfId' # pdfId /\ ~Unconfigured(apiBaseUrl)) =>
            /\ boundingBoxes' = << >>
            /\ ~pdfPageView'.set
            /\ error' = NoError
            /\ isLoading'
            /\ canvas'.page = "blank" /\ canvas'.strokes = {}
            /\ cyc'[nCycles'].pc = "fetch"]_vars
    /\ [](\A c \in Cycles :
            (c = nCycles /\ cyc[c].pc = "fetch" /\ src.boxes # 0) => src.epoch = c)

C4_Witness ==
    /\ nCycles >= 2
    /\ cyc[nCycles].pc = "fetch"
    /\ \A c \in 1..(nCycles - 1) : cyc[c].pc = "done"
    /\ boundingBoxes = << >> /\ ~pdfPageView.set /\ isLoading

\* C5: a load cycle that has failed ends with error set, boundingBoxes empty
\* and the transform absent.
C5_FailedCycleLeavesNothing ==
    (ev.ended /\ ev.fail # "none") =>
        (error # NoError /\ boundingBoxes = << >> /\ ~pdfPageView.set)

\* C6: with the API base unset or the placeholder, no metadata request is ever
\* pending, no engine call is made, and once a cycle has been started the
\* state is the configuration error with isLoading false.
C6_UnconfiguredNeverFetches ==
    (apiBaseUrl = Placeholder \/ apiBaseUrl = "" \/ apiBaseUrl = Absent) =>
        /\ \A c \in Cycles : cyc[c].pc \in {"new", "done"} /\ cyc[c].engine = {}
        /\ ev.engine = {}
        /\ ev.ended => ev.fail = "config"
        /\ nCycles > 0 => (error = ErrorObj(ConfigErrorMsg) /\ ~isLoading)

C6_Witness ==
    /\ apiBaseUrl = Placeholder
    /\ nCycles >= 2
    /\ ev.ended
    /\ error = ErrorObj(ConfigErrorMsg)

\* The message has the text as one of its parts.
Carries(msg, text) == \E i \in 1..Len(msg) : msg[i] = text

\* A load cycle has just ended because its metadata call reported an error or
\* returned no payload.
FetchFailed == ev.ended /\ ev.fail \in {"fetch", "nodata"}

\* What every failed metadata call leaves: an Error, the loading indicator
\* off, no boxes, the cycle over without any engine call.
FetchFailureState ==
    /\ error.kind = "Error"
    /\ ~isLoading
    /\ boundingBoxes = << >>
    /\ cyc[ev.c].pc = "done" /\ ev.engine = {}

\* C7 as stated: a failed metadata call ends the cycle in an Error whose
\* message carries the remote error's `message`.
C7_ErrorCarriesRemoteMessage ==
    FetchFailed =>
        /\ FetchFailureState
        /\ ev.fail = "fetch" => Carries(error.message, ev.remote.message)

\* C7 as amended: the message carries the remote error's statusMessage when it
\* has one, otherwise its message.
C7_ErrorCarriesRemoteText ==
    FetchFailed =>
        /\ FetchFailureState
        /\ ev.fail = "fetch" =>
             Carries(error.message,
                     IF ev.remote.statusMessage \notin {Absent, ""}
                       THEN ev.remote.statusMessage ELSE ev.remote.message)

C7_Witness ==
    /\ FetchFailed
    /\ ev.remote.statusMessage = "Internal Server Error"
    /\ error = ErrorObj(<< "Error fetching metadata: ", "Internal Server Error" >>)

\* C8: a reply whose payload has no storage path ends the cycle in the step
\* that receives it, in Error, with boundingBoxes empty and no engine call, so
\* the payload's boxes are in boundingBoxes in no state.
C8_MissingPathLeavesNoBoxes ==
    (ev.ended /\ ev.fail = "nopath") =>
        /\ error = ErrorObj(NoPathMsg)
        /\ boundingBoxes = << >>
        /\ src.boxes # ev.c
        /\ cyc[ev.c].pc = "done"
        /\ ev.engine = {}

C8_Witness ==
    /\ ev.ended /\ ev.fail = "nopath"
    /\ error = ErrorObj(NoPathMsg)
    /\ ~isLoading

\* The boxes whose stroked rectangle contains the last click.
Hits ==
    { i \in 1..Len(boundingBoxes) :
        InsideStroke(boundingBoxes[i], pdfPageView, ev.x, ev.y) }

\* C9: a click selects the lowest-index box whose scaled rectangle contains
\* the point, none if no box contains it, and focuses that box's input only.
C9_FirstContainingBoxWins ==
    ev.clicked =>
        /\ Hits = {} => (ev.hit = 0 /\ ev.focus = NoFocus)
        /\ Hits # {} =>
             /\ ev.hit \in Hits
             /\ \A j \in Hits : ev.hit <= j
             /\ ev.focus = "input-" \o boundingBoxes[ev.hit].element_id

\* A click inside two boxes, the second of larger area, selected the first.
C9_Witness ==
    /\ ev.clicked
    /\ ev.hit = 1
    /\ 2 \in Hits
    /\ boundingBoxes[2].width * boundingBoxes[2].height
         > boundingBoxes[1].width * boundingBoxes[1].height

\* The state but for the record of the last step.
Program(s) ==
    << s.apiBaseUrl, s.mounted, s.pdfId, s.boundingBoxes, s.pdfFileUrl,
       s.isLoading, s.error, s.pdfPageView, s.canvas, s.focused, s.cyc,
       s.nCycles >>

\* C10: in every reachable state, a click at a point is handled without a
\* focus signal and without a state change if the transform is absent or no
\* box's stroked rectangle contains the point.
C10_NoTransformOrMissNoFocus ==
    \A p \in ClickPoints :
        LET after == HandleCanvasClick(Event(St), p[1], p[2]) IN
        (\/ ~pdfPageView.set
         \/ \A i \in 1..Len(boundingBoxes) :
              ~InsideStroke(boundingBoxes[i], pdfPageView, p[1], p[2]))
          => /\ after.ev.hit = 0
             /\ after.ev.focus = NoFocus
             /\ Program(after) = Program(St)

\* The transform is absent while boxes are stored.
C10_Witness ==
    /\ ~pdfPageView.set
    /\ Len(boundingBoxes) > 0
    /\ mounted

\* The documents a click may meet: every box has its input, or the input of
\* the box at index i is not there.
FieldsWithout(i) == InputIds(boundingBoxes) \ { InputId(boundingBoxes[i]) }

\* C11: a click that hits box B focuses the field "input-" + B.element_id and
\* nothing else changes; if the document has no field with that id, the click
\* changes nothing at all (boxes, transform, error, loading state, focus).
C11_HitFocusesItsFieldOnly ==
    /\ (ev.clicked /\ ev.hit # 0) =>
          /\ ev.focus = "input-" \o boundingBoxes[ev.hit].element_id
          /\ focused = ev.focus
    /\ \A p \in ClickPoints :
          LET hit == HitTest(boundingBoxes, pdfPageView, p[1], p[2])
              with == HandleClickIn(Event(St), InputIds(boundingBoxes), p[1], p[2])
          IN  hit # 0 =>
                LET key == "input-" \o boundingBoxes[hit].element_id
                    without == HandleClickIn(Event(St), FieldsWithout(hit), p[1], p[2])
                IN  /\ with.focused = key /\ with.ev.focus = key
                    /\ Program([with EXCEPT !.focused = focused]) = Program(St)
                    /\ without.ev.focus = NoFocus
                    /\ Program(without) = Program(St)

\* A click inside the box keyed by the server's `id` focused its field.
C11_Witness ==
    /\ ev.clicked
    /\ ev.hit = 3
    /\ focused = "input-b7"
    /\ ~isLoading /\ error = NoError

\* C12: in Ready or Error, the watcher called with the identifier the
\* component already has changes nothing: boxes, transform, error, isLoading,
\* canvas and identifier stay as they are and no load cycle is started.
C12_SameIdentifierIsNoOp ==
    (mounted /\ ~isLoading) =>
        LET after == Flush(Watcher(Event(St), pdfId)) IN
        /\ Program(after) = Program(St)
        /\ after.nCycles = nCycles
        /\ \A c \in Cycles : after.cyc[c].pc = cyc[c].pc

\* Error with every load cycle over, after a step that did nothing: the
\* watcher ran and its guard did not let the value through.
C12_Witness ==
    /\ mounted /\ pdfId \in Ids
    /\ ~isLoading /\ error # NoError
    /\ nCycles >= 1 /\ \A c \in 1..nCycles : cyc[c].pc = "done"
    /\ ev = NoEvent

\* What the template shows: the loading indicator (line 3), the error panel
\* (line 4), the PDF surface with the input fields (line 12).
LoadingShown == mounted /\ isLoading
ErrorShown == mounted /\ error # NoError
SurfaceShown == canvas.exists

\* C13: once mounted, exactly one of the loading indicator, the error panel
\* and the PDF surface is shown; with an error set there is no loading
\* indicator, no PDF surface and no input field.
C13_ExactlyOneLoadState ==
    /\ mounted =>
          /\ LoadingShown \/ ErrorShown \/ SurfaceShown
          /\ ~(LoadingShown /\ ErrorShown)
          /\ ~(LoadingShown /\ SurfaceShown)
          /\ ~(ErrorShown /\ SurfaceShown)
    /\ error # NoError =>
          (~isLoading /\ ~canvas.exists /\ focused = NoFocus)

\* The newest load cycle is over and the component is in Error.
ErrorState ==
    /\ nCycles >= 1 /\ cyc[nCycles].pc = "done"
    /\ ~isLoading /\ error # NoError

\* C14: a load cycle issues its metadata request once (when it starts) and
\* loads its document once (after the reply); and from Error, as long as the
\* identifier does not change, no step starts a request or an engine call or
\* changes boxes, transform, path, error, isLoading or the canvas.
C14_ErrorIsTerminal ==
    [][/\ \A c \in Cycles :
            /\ (cyc'[c].pc = "fetch" /\ cyc[c].pc # "fetch") => cyc[c].pc = "new"
            /\ (cyc'[c].pc = "doc" /\ cyc[c].pc # "doc") => cyc[c].pc = "fetch"
       /\ (ErrorState /\ pdfId' = pdfId) =>
            /\ UNCHANGED << SharedRefs, canvas, nCycles >>
            /\ \A c \in Cycles :
                 /\ cyc'[c].pc = "fetch" => cyc[c].pc = "fetch"
                 /\ cyc'[c].engine \subseteq cyc[c].engine]_vars

Blank(cv) == cv.page = "blank" /\ cv.strokes = {}

\* C15: a render call clears the canvas of the page before it loads the
\* document and again before it starts painting, so every paint is preceded by
\* a clear in the same call; and in every state with an error set the canvas
\* holds no page content and no box outlines.
C15_ClearBeforePaintNothingInError ==
    /\ [](error # NoError => Blank(canvas))
    /\ [][\A c \in Cycles :
            /\ (cyc[c].pc = "fetch" /\ cyc'[c].pc = "doc") => Blank(canvas')
            /\ (cyc[c].pc = "page" /\ cyc'[c].pc = "render" /\ cyc'[c].att)
                  => Blank(canvas')]_vars

\* A superseded load cycle's paint has failed after it was started on the
\* canvas of the page; the component is in Error.
C15_Witness ==
    \E c \in Cycles :
        /\ c < nCycles
        /\ cyc[c].pc = "ret" /\ cyc[c].fail = "paint"
        /\ "render" \in cyc[c].engine
        /\ error = ErrorStr(RenderErrorMsg("paint"))
        /\ Blank(canvas)

\* C16: the canvas has at most one click listener, a listener is added only
\* by the step in which a render succeeds, and a click is tested against boxes
\* and a transform that the newest load cycle produced.
C16_OneListenerOnCurrentLoad ==
    /\ [](/\ canvas.listeners <= 1
          /\ ev.clicked =>
               /\ pdfPageView.set => src.view = nCycles
               /\ Len(boundingBoxes) > 0 => src.boxes = nCycles)
    /\ [][canvas'.listeners > canvas.listeners =>
            \E c \in Cycles :
                /\ cyc[c].pc = "render" /\ cyc'[c].pc = "ret"
                /\ cyc'[c].fail = "none"]_vars

\* Containment as the claim states it, with s = view.num / view.den:
\* x*s <= px <= (x+width)*s and y*s <= py <= (y+height)*s.
ClaimInside(box, view, px, py) ==
    /\ box.x * view.num <= px * view.den
    /\ px * view.den <= (box.x + box.width) * view.num
    /\ box.y * view.num <= py * view.den
    /\ py * view.den <= (box.y + box.height) * view.num

\* The box k times as large.  The comparison is homogeneous, so the point
\* (px/k, py/k) against a box is the point (px, py) against the box magnified
\* k times: this brings a centre with fractional coordinates onto a pixel.
Magnified(box, k) ==
    [box EXCEPT !.x = k * @, !.y = k * @, !.width = k * @, !.height = k * @]

\* The centre and the four corners of the box's screen rectangle hit the box;
\* taken on the box magnified 2 * view.den times, where they are integers.
CentreAndCornersHit(box, view) ==
    LET big == Magnified(box, 2 * view.den)
        left == 2 * box.x * view.num
        right == 2 * (box.x + box.width) * view.num
        top == 2 * box.y * view.num
        bottom == 2 * (box.y + box.height) * view.num
    IN  /\ Contains(big, view, (2 * box.x + box.width) * view.num,
                               (2 * box.y + box.height) * view.num)
        /\ \A cx \in {left, right} : \A cy \in {top, bottom} :
              Contains(big, view, cx, cy)

\* C17: the test of the click handler is edge-inclusive containment in screen
\* space: a click is inside a box exactly when x*s <= px <= (x+width)*s and
\* y*s <= py <= (y+height)*s, the selected box contains the click and no box
\* does when none is selected; centre and corners of every box hit it, boxes
\* of zero width or height included.
C17_ContainmentEdgeInclusive ==
    /\ \A i \in 1..Len(boundingBoxes) :
          CentreAndCornersHit(boundingBoxes[i], pdfPageView)
    /\ ev.clicked =>
          /\ \A i \in 1..Len(boundingBoxes) :
                Contains(boundingBoxes[i], pdfPageView, ev.x, ev.y)
                  <=> ClaimInside(boundingBoxes[i], pdfPageView, ev.x, ev.y)
          /\ ev.hit # 0 =>
                ClaimInside(boundingBoxes[ev.hit], pdfPageView, ev.x, ev.y)
          /\ ev.hit = 0 =>
                \A i \in 1..Len(boundingBoxes) :
                    ~ClaimInside(boundingBoxes[i], pdfPageView, ev.x, ev.y)

\* At scale 3/2, a click on the bottom corner of a box of zero width
\* selected it.
C17_Witness ==
    /\ ev.clicked /\ ev.hit = 1
    /\ pdfPageView = GetViewport
    /\ boundingBoxes[1].width = 0 /\ boundingBoxes[1].height > 0
    /\ ev.x * ScaleDen = boundingBoxes[1].x * ScaleNum
    /\ ev.y * ScaleDen = (boundingBoxes[1].y + boundingBoxes[1].height) * ScaleNum

\* The step stored the reply's boxes and they are still in boundingBoxes.
BoxesStored == ev.stored /\ ~ev.ended

\* Length, order, coordinates and text are those of the server's list.
SameBoxesButKey ==
    /\ Len(boundingBoxes) = Len(ev.raw)
    /\ \A i \in 1..Len(ev.raw) :
          /\ boundingBoxes[i].x = ev.raw[i].x
          /\ boundingBoxes[i].y = ev.raw[i].y
          /\ boundingBoxes[i].width = ev.raw[i].width
          /\ boundingBoxes[i].height = ev.raw[i].height
          /\ boundingBoxes[i].text = ev.raw[i].text

\* C18 as stated: each stored box has the raw record's element_id when the
\* record has that field, otherwise its id; coordinates, text, length and
\* order are the server's.
C18_KeyIsElementIdWhenPresent ==
    BoxesStored =>
        /\ SameBoxesButKey
        /\ \A i \in 1..Len(boundingBoxes) :
              boundingBoxes[i].element_id =
                 IF ev.raw[i].element_id # Absent THEN ev.raw[i].element_id
                                                  ELSE ev.raw[i].id

\* C18 as amended: each stored box has the raw record's element_id when the
\* record has that field and it is not empty, otherwise its id.
C18_KeyIsElementIdWhenTruthy ==
    BoxesStored =>
        /\ SameBoxesButKey
        /\ \A i \in 1..Len(boundingBoxes) :
              boundingBoxes[i].element_id =
                 IF ev.raw[i].element_id \notin {Absent, ""}
                   THEN ev.raw[i].element_id ELSE ev.raw[i].id

\* A list of two records was stored: the first has an empty element_id and
\* got its id as key, the second kept its element_id.
C18_Witness ==
    /\ BoxesStored
    /\ Len(ev.raw) = 2
    /\ ev.raw[1].element_id = "" /\ ev.raw[1].id = "b7"
    /\ boundingBoxes[1].element_id = "b7"
    /\ ev.raw[2].id = "b7" /\ boundingBoxes[2].element_id = "e1"

\* Idle: the component is mounted and no identifier has been supplied yet.
Idle == mounted /\ pdfId = NoId

\* C19: in Idle there is no loading indicator and no request; the loading
\* indicator is on only once a load cycle has been started for an identifier;
\* and an identifier, once supplied, is never lost again.
C19_LoadingOnlyWithIdentifier ==
    /\ Idle => (~isLoading /\ nCycles = 0 /\ \A c \in Cycles : cyc[c].pc = "new")
    /\ (mounted /\ isLoading) => (nCycles >= 1 /\ pdfId \in Ids)
    /\ nCycles >= 1 => pdfId \in Ids

\* The load cycle of the current identifier (the newest one) has been started
\* and has not finished.
CurrentInFlight == nCycles >= 1 /\ cyc[nCycles].pc \notin {"new", "done"}

\* C20: while the load cycle of the current identifier is in flight,
\* isLoading is true.
C20_LoadingWhileCurrentInFlight == CurrentInFlight => isLoading

\* Load cycle c has been started and has not finished.
InFlight(c) == cyc[c].pc \notin {"new", "done"}

\* Ready or Error with the loading indicator off: an error is shown, or the
\* PDF surface is shown and a page transform is stored.
Settled ==
    /\ ~isLoading
    /\ error # NoError \/ (canvas.exists /\ pdfPageView.set)

\* C21: if every awaited call settles and the identifier changes finitely
\* often, then from some point on no load cycle is in flight (a finished
\* cycle never resumes, so every started cycle finishes) and, if a cycle was
\* started, the component is in Ready or Error with isLoading false.
C21_EveryCycleFinishes ==
    <>[](/\ \A c \in Cycles : ~InFlight(c)
         /\ nCycles >= 1 => Settled)

\* Several load cycles were started, all are over, and the component is in
\* Ready.
C21_Witness ==
    /\ nCycles >= 2
    /\ \A c \in 1..nCycles : cyc[c].pc = "done"
    /\ ~isLoading /\ error = NoError
    /\ canvas.exists /\ pdfPageView.set

====
